---- MODULE Spec2Model ----
(***************************************************************************)
(* A model of the memory manager of mcp_memory_service/server.py:          *)
(* MemoryServer's six tool handlers over one ChromaDB collection shared    *)
(* by the server processes (connections) that open the same CHROMA_PATH.   *)
(*                                                                         *)
(* Text is modelled character by character: a Python str is a sequence of  *)
(* one-character strings, so joining, splitting and substring search are   *)
(* computed, not assumed.  hashlib.sha256(..).hexdigest() is modelled as   *)
(* an injective map from the digested text to one opaque token.            *)
(***************************************************************************)
EXTENDS Integers, Sequences, FiniteSets, TLC

(***************************************************************************)
(* Bounds of the model.                                                    *)
(***************************************************************************)
\* The clock is read in ticks; it never shows more than MaxClock.
MaxClock == 2
\* Clock ticks per millisecond: time.time() resolves finer than the
\* millisecond that int(time.time() * 1000) keeps.
TicksPerMs == 2
\* Number of tool calls one run of the sequential specification makes.
MaxOps == 3
\* Number of tool calls one run of the concurrent specification makes.
MaxConcOps == 4

(***************************************************************************)
(* Text helpers (Python str operations).                                   *)
(***************************************************************************)
Digit == <<"0", "1", "2", "3", "4", "5", "6", "7", "8", "9">>

\* str(n) for a natural number n: its decimal digits.
RECURSIVE Str(_)
Str(n) == IF n < 10 THEN <<Digit[n + 1]>>
          ELSE Str(n \div 10) \o <<Digit[(n % 10) + 1]>>

\* sep.join(parts)
RECURSIVE Join(_, _)
Join(parts, sep) ==
    IF parts = <<>> THEN <<>>
    ELSE IF Len(parts) = 1 THEN parts[1]
    ELSE parts[1] \o sep \o Join(Tail(parts), sep)

\* s.split(ch) for a one-character separator: "".split(",") is [""].
RECURSIVE SplitFrom(_, _, _)
SplitFrom(s, ch, cur) ==
    IF s = <<>> THEN <<cur>>
    ELSE IF Head(s) = ch THEN <<cur>> \o SplitFrom(Tail(s), ch, <<>>)
    ELSE SplitFrom(Tail(s), ch, Append(cur, Head(s)))

Split(s, ch) == SplitFrom(s, ch, <<>>)

\* sub in s  (substring test); the empty text is in every text.
Contains(s, sub) ==
    \E i \in 1..(Len(s) - Len(sub) + 1) : SubSeq(s, i, i + Len(sub) - 1) = sub

Range(f) == {f[i] : i \in DOMAIN f}

\* The orders in which the records of a set can be listed.
Perms(S) ==
    {f \in [1..Cardinality(S) -> S] : \A i, j \in 1..Cardinality(S) : i # j => f[i] # f[j]}

(***************************************************************************)
(* Metadata keys as text.                                                  *)
(***************************************************************************)
KeyText(k) ==
    CASE k = "content_hash" -> <<"c","o","n","t","e","n","t","_","h","a","s","h">>
      [] k = "tags_str"     -> <<"t","a","g","s","_","s","t","r">>
      [] k = "timestamp"    -> <<"t","i","m","e","s","t","a","m","p">>
      [] k = "type"         -> <<"t","y","p","e">>

\* sorted(metadata.items()) over the keys the service writes: the keys in
\* lexicographic order.
SortedKeysAll == <<"content_hash", "tags_str", "timestamp", "type">>

SortedItems(metadata) == SelectSeq(SortedKeysAll, LAMBDA k : k \in DOMAIN metadata)

\* [f"{k}:{v}" for k, v in sorted(metadata.items())]
RECURSIVE Rendered(_, _)
Rendered(metadata, keys) ==
    IF keys = <<>> THEN <<>>
    ELSE <<KeyText(Head(keys)) \o <<":">> \o metadata[Head(keys)]>>
         \o Rendered(metadata, Tail(keys))

\* The text _generate_hash digests.
HashContent(content, metadata) ==
    IF DOMAIN metadata = {} THEN content
    ELSE content \o Join(Rendered(metadata, SortedItems(metadata)), <<",">>)

\* hashlib.sha256(text.encode()).hexdigest(): one token per digested text,
\* distinct texts giving distinct tokens.
Sha256Hex(text) == <<ToString(text)>>

GenerateHash(content, metadata) == Sha256Hex(HashContent(content, metadata))

(***************************************************************************)
(* _generate_hash over a dict as Python keeps it: the (key, value) pairs   *)
(* in the order they were inserted, sorted by the function itself.         *)
(***************************************************************************)
\* The characters of the model in code point order.
CodeOrder ==
    << ",", "0", "1", "2", "3", "4", "5", "6", "7", "8", "9", ":", "?", "_",
       "a", "c", "e", "g", "h", "i", "m", "n", "o", "p", "r", "s", "t", "x", "y" >>

Code(c) == CHOOSE i \in DOMAIN CodeOrder : CodeOrder[i] = c

\* a < b for two str values: the first differing character decides, a
\* proper prefix comes first.
RECURSIVE TextLess(_, _)
TextLess(a, b) ==
    IF a = <<>> THEN b # <<>>
    ELSE IF b = <<>> THEN FALSE
    ELSE IF Head(a) = Head(b) THEN TextLess(Tail(a), Tail(b))
    ELSE Code(Head(a)) < Code(Head(b))

RECURSIVE InsertPair(_, _)
InsertPair(pair, sorted) ==
    IF sorted = <<>> THEN <<pair>>
    ELSE IF TextLess(pair[1], Head(sorted)[1]) THEN <<pair>> \o sorted
    ELSE <<Head(sorted)>> \o InsertPair(pair, Tail(sorted))

\* A hash input that keeps the pairs in insertion order.
SortedAsInserted(items) == items

\* sorted(metadata.items()): the pairs by key (the keys of a dict differ,
\* so the values never decide).
RECURSIVE Sorted(_)
Sorted(items) ==
    IF items = <<>> THEN <<>>
    ELSE InsertPair(Head(items), Sorted(Tail(items)))

\* The text _generate_hash digests, for the dict with the pairs items.
HashContentOf(content, items) ==
    IF items = <<>> THEN content
    ELSE content \o Join([i \in DOMAIN items |->
                              Sorted(items)[i][1] \o <<":">> \o Sorted(items)[i][2]],
                         <<",">>)

GenerateHashOf(content, items) == Sha256Hex(HashContentOf(content, items))

\* metadata.items() of the dict that holds the pairs of metadata, inserted
\* in the order order.
ItemsOf(metadata, order) ==
    [i \in DOMAIN order |-> <<KeyText(order[i]), metadata[order[i]]>>]


(***************************************************************************)
(* Inputs the callers send.                                                *)
(***************************************************************************)
TxtA == <<"a">>
\* A content that ends like a rendered metadata entry: "atags_str:x,y,".
TxtAmb == <<"a">> \o KeyText("tags_str") \o <<":", "x", ",", "y", ",">>
TagX == <<"x">>
TagY == <<"y">>
TagXY == <<"x", "y">>
TagEmpty == <<>>
TypeNote == <<"n">>

\* An arguments dict holding none of the keys a handler reads.
NoArgs == [unused |-> <<>>]

Contents == {TxtA, TxtAmb}
RawMetadatas ==
    { [tags |-> <<>>],
      [tags |-> <<TagX, TagY>>],
      [tags |-> <<TagXY>>, type |-> TypeNote, source |-> <<"s">>] }

StoreArgs ==
    {NoArgs, [content |-> <<>>]}
    \cup {[content |-> c] : c \in Contents}
    \cup {[content |-> TxtA, metadata |-> m] : m \in RawMetadatas}

\* The store requests of the concurrent specification: one request that
\* two connections can both send, and one whose digested text equals it.
ConcStoreArgs ==
    { [content |-> TxtA, metadata |-> [tags |-> <<TagX, TagY>>]],
      [content |-> TxtAmb] }

Procs == {"p1", "p2"}

(***************************************************************************)
(* State.                                                                  *)
(***************************************************************************)
VARIABLES
    collection,  \* the live records of "memory_collection": [id, document, metadata]
    now,         \* the last reading of time.time(), in ticks
    pc,          \* where each server process is in the handler it runs
    loc,         \* the local variables of the handler each process runs
    hist,        \* the last two completed tool calls, oldest first
    nops,        \* tool calls begun so far
    deletedIds,  \* ids of the records deleted so far
    userDeleted, \* content_hash of the records delete_memory/delete_by_tag removed
    sweepSeen,   \* content_hash of the records cleanup sweeps fetched
    hashed       \* a direct call of _generate_hash: its arguments and digest

vars == <<collection, now, pc, loc, hist, nops, deletedIds, userDeleted, sweepSeen,
          hashed>>

\* No direct call of _generate_hash.
NoHashCall ==
    [content |-> <<>>, metadata |-> [timestamp |-> <<>>], order |-> <<>>,
     digest |-> <<>>, done |-> FALSE]

IdleLoc ==
    [ op |-> "none", args |-> NoArgs, content |-> <<>>,
      metadata |-> [timestamp |-> <<>>], hash |-> <<>>, id |-> <<>>,
      fetched |-> <<>>, ids |-> {}, calls |-> 0, before |-> {}, alone |-> TRUE ]

Result(kind) == [kind |-> kind, id |-> <<>>, n |-> 0, docs |-> <<>>]

Ids(recs) == {r.id : r \in recs}
Hashes(recs) == {r.metadata.content_hash : r \in recs}

Init ==
    /\ collection = {}
    /\ now = 0
    /\ pc = [p \in Procs |-> "idle"]
    /\ loc = [p \in Procs |-> IdleLoc]
    /\ hist = <<>>
    /\ nops = 0
    /\ deletedIds = {}
    /\ userDeleted = {}
    /\ sweepSeen = {}
    /\ hashed = NoHashCall

\* A step of p: every other process that is inside a handler has been
\* overlapped by it.
Others(p, mine) ==
    [q \in Procs |-> IF q = p THEN mine
                     ELSE IF pc[q] # "idle" THEN [loc[q] EXCEPT !.alone = FALSE]
                     ELSE loc[q]]

\* The locals of a handler that p enters now with arguments a.
Enter(p, op, a) ==
    [IdleLoc EXCEPT !.op = op, !.args = a, !.before = collection,
                    !.alone = \A q \in Procs \ {p} : pc[q] = "idle"]

Push(e) == IF Len(hist) = 2 THEN <<hist[2], e>> ELSE Append(hist, e)

\* p's handler returns res, having left the collection as after.
Return(p, mine, res, after) ==
    /\ pc' = [pc EXCEPT ![p] = "idle"]
    /\ loc' = Others(p, IdleLoc)
    /\ hist' = Push([call |-> mine, res |-> res, after |-> after])
    /\ hashed' = hashed

\* p's handler moves on to the step named next.
Goto(p, mine, next) ==
    /\ pc' = [pc EXCEPT ![p] = next]
    /\ loc' = Others(p, mine)
    /\ hist' = hist
    /\ hashed' = hashed

\* A validation that tests only for a missing argument (`is None`).
FalsyNoneOnly(a, k) == k \notin DOMAIN a

\* arguments.get(k) is None or empty:  `not arguments.get(k)`.
Falsy(a, k) == k \notin DOMAIN a \/ a[k] = <<>>

(***************************************************************************)
(* store_memory                                                            *)
(***************************************************************************)
\* Lines 189-197: the metadata kept from the caller's, stamped with the time.
ProcessMetadata(a, ts) ==
    LET given == IF Falsy(a, "metadata") THEN {} ELSE DOMAIN a.metadata
        keys  == {"timestamp"}
                 \cup (IF "tags" \in given THEN {"tags_str"} ELSE {})
                 \cup (IF "type" \in given THEN {"type"} ELSE {})
    IN [k \in keys |->
          CASE k = "tags_str"  -> Join(a.metadata.tags, <<",">>)
            [] k = "type"      -> a.metadata.type
            [] k = "timestamp" -> ts]

WithHash(metadata, h) ==
    [k \in DOMAIN metadata \cup {"content_hash"} |->
        IF k = "content_hash" THEN h ELSE metadata[k]]

\* Lines 182-201: validate, process the metadata, stamp it with
\* str(time.time()) and fingerprint it.
StoreMemory(p, a) ==
    /\ pc[p] = "idle"
    /\ nops' = nops + 1
    /\ UNCHANGED <<collection, deletedIds, userDeleted, sweepSeen>>
    /\ IF Falsy(a, "content")
       THEN /\ Return(p, Enter(p, "store_memory", a), Result("ValidationError"), collection)
            /\ now' = now
       ELSE \E t \in now..MaxClock :
              LET processed == ProcessMetadata(a, Str(t))
                  h == GenerateHash(a.content, processed)
              IN /\ now' = t
                 /\ Goto(p, [Enter(p, "store_memory", a) EXCEPT
                                !.content = a.content,
                                !.metadata = WithHash(processed, h),
                                !.hash = h],
                         "store_check")

\* A duplicate check that never finds the fingerprint.
StoreCheckBlind(p) ==
    /\ pc[p] = "store_check"
    /\ UNCHANGED <<collection, now, nops, deletedIds, userDeleted, sweepSeen>>
    /\ Goto(p, [loc[p] EXCEPT !.calls = @ + 1], "store_encode")

\* Lines 204-212: collection.get(where={"content_hash": h}, limit=1).
StoreCheck(p) ==
    /\ pc[p] = "store_check"
    /\ UNCHANGED <<collection, now, nops, deletedIds, userDeleted, sweepSeen>>
    /\ LET mine == [loc[p] EXCEPT !.calls = @ + 1]
       IN IF \E r \in collection : r.metadata.content_hash = loc[p].hash
          THEN Return(p, mine, Result("Duplicate"), collection)
          ELSE Goto(p, mine, "store_encode")

\* Lines 215-216: the embedding, and the id from int(time.time() * 1000).
StoreEncode(p) ==
    /\ pc[p] = "store_encode"
    /\ UNCHANGED <<collection, nops, deletedIds, userDeleted, sweepSeen>>
    /\ \E t \in now..MaxClock :
         /\ now' = t
         /\ Goto(p, [loc[p] EXCEPT !.calls = @ + 1, !.id = Str(t \div TicksPerMs)],
                 "store_add")

\* What collection.add does with an id that is already in the collection:
\* the engine keeps the record it has and either says nothing or raises.
AddExistingOutcomes == {"ignored", "raised"}

\* A write that looks for the fingerprint again before it commits.
StoreAddRecheck(p) ==
    /\ pc[p] = "store_add"
    /\ UNCHANGED <<now, nops, deletedIds, userDeleted, sweepSeen>>
    /\ LET mine == [loc[p] EXCEPT !.calls = @ + 1]
           rec  == [id |-> mine.id, document |-> mine.content, metadata |-> mine.metadata]
       IN IF mine.id \in Ids(collection) \/ mine.hash \in Hashes(collection)
          THEN /\ collection' = collection
               /\ Return(p, mine, Result("Duplicate"), collection)
          ELSE /\ collection' = collection \cup {rec}
               /\ Return(p, mine, [Result("Stored") EXCEPT !.id = mine.id],
                         collection \cup {rec})

\* A write that replaces the live record that has the id (an upsert).
StoreAddUpsert(p) ==
    /\ pc[p] = "store_add"
    /\ UNCHANGED <<now, nops, deletedIds, userDeleted, sweepSeen>>
    /\ LET mine == [loc[p] EXCEPT !.calls = @ + 1]
           rec  == [id |-> mine.id, document |-> mine.content, metadata |-> mine.metadata]
           left == {r \in collection : r.id # mine.id} \cup {rec}
       IN /\ collection' = left
          /\ Return(p, mine, [Result("Stored") EXCEPT !.id = mine.id], left)

\* Lines 218-228: collection.add(...) and the Stored text.
StoreAdd(p) ==
    /\ pc[p] = "store_add"
    /\ UNCHANGED <<now, nops, deletedIds, userDeleted, sweepSeen>>
    /\ LET mine == [loc[p] EXCEPT !.calls = @ + 1]
           rec  == [id |-> mine.id, document |-> mine.content, metadata |-> mine.metadata]
           ok   == [Result("Stored") EXCEPT !.id = mine.id]
       IN IF mine.id \in Ids(collection)
          THEN /\ collection' = collection
               /\ \E outcome \in AddExistingOutcomes :
                    Return(p, mine,
                           IF outcome = "ignored" THEN ok ELSE Result("Error"),
                           collection)
          ELSE /\ collection' = collection \cup {rec}
               /\ Return(p, mine, ok, collection \cup {rec})

(***************************************************************************)
(* retrieve_memory                                                         *)
(***************************************************************************)
\* arguments.get("n_results", 5)
DefaultNResults == 5

RetrieveArgs ==
    {NoArgs, [query |-> <<>>], [query |-> TxtA], [query |-> TxtA, n_results |-> 1]}

Min(a, b) == IF a <= b THEN a ELSE b

\* A retrieval that returns every record the engine ranks, whatever
\* n_results says.
RetrieveMemoryAll(p, a) ==
    /\ pc[p] = "idle"
    /\ nops' = nops + 1
    /\ UNCHANGED <<collection, now, deletedIds, userDeleted, sweepSeen>>
    /\ IF Falsy(a, "query")
       THEN Return(p, Enter(p, "retrieve_memory", a), Result("ValidationError"), collection)
       ELSE \E ranked \in Perms(collection) :
              LET mine == [Enter(p, "retrieve_memory", a) EXCEPT !.calls = 2, !.fetched = ranked]
              IN Return(p, mine,
                        IF ranked = <<>> THEN Result("NoMatch")
                        ELSE [Result("Found") EXCEPT !.docs = ranked, !.n = Len(ranked)],
                        collection)

\* Lines 234-262: collection.query returns the n_results nearest records,
\* nearest first; the ranking is the engine's.
RetrieveMemory(p, a) ==
    /\ pc[p] = "idle"
    /\ nops' = nops + 1
    /\ UNCHANGED <<collection, now, deletedIds, userDeleted, sweepSeen>>
    /\ IF Falsy(a, "query")
       THEN Return(p, Enter(p, "retrieve_memory", a), Result("ValidationError"), collection)
       ELSE \E ranked \in Perms(collection) :
              LET n    == IF "n_results" \in DOMAIN a THEN a.n_results ELSE DefaultNResults
                  top  == SubSeq(ranked, 1, Min(n, Len(ranked)))
                  mine == [Enter(p, "retrieve_memory", a) EXCEPT !.calls = 2, !.fetched = ranked]
              IN Return(p, mine,
                        IF top = <<>> THEN Result("NoMatch")
                        ELSE [Result("Found") EXCEPT !.docs = top, !.n = Len(top)],
                        collection)

(***************************************************************************)
(* search_by_tag                                                           *)
(***************************************************************************)
SearchArgs ==
    { NoArgs, [tags |-> <<>>], [tags |-> <<TagX>>], [tags |-> <<TagEmpty>>],
      [tags |-> <<TagY, TagXY>>] }

\* Lines 281-283: the record has tags_str and one of the requested tags is
\* in set(tags_str.split(",")).
TagMatch(r, tags) ==
    /\ "tags_str" \in DOMAIN r.metadata
    /\ \E i \in DOMAIN tags : tags[i] \in Range(Split(r.metadata.tags_str, ","))

\* Lines 268-298: fetch everything, keep the matching records in fetch order.
SearchByTag(p, a) ==
    /\ pc[p] = "idle"
    /\ nops' = nops + 1
    /\ UNCHANGED <<collection, now, deletedIds, userDeleted, sweepSeen>>
    /\ IF Falsy(a, "tags")
       THEN Return(p, Enter(p, "search_by_tag", a), Result("ValidationError"), collection)
       ELSE \E all \in Perms(collection) :
              LET mine     == [Enter(p, "search_by_tag", a) EXCEPT !.calls = 1, !.fetched = all]
                  matching == SelectSeq(all, LAMBDA r : TagMatch(r, a.tags))
              IN Return(p, mine,
                        IF all = <<>> THEN Result("NoMemories")
                        ELSE IF matching = <<>> THEN Result("NoTagMatch")
                        ELSE [Result("Found") EXCEPT !.docs = matching, !.n = Len(matching)],
                        collection)

(***************************************************************************)
(* delete_memory                                                           *)
(***************************************************************************)
\* A well-formed hash that no record carries.
UnknownHash == Sha256Hex(<<"?">>)

\* The hashes a caller can know: of a live record, of a record deleted
\* earlier, or of nothing.
DeleteArgs ==
    {NoArgs, [content_hash |-> <<>>]}
    \cup {[content_hash |-> h] : h \in Hashes(collection) \cup userDeleted \cup {UnknownHash}}

\* A delete that reports an error when no record carries the hash.
DeleteMemoryStrict(p, a) ==
    /\ pc[p] = "idle"
    /\ nops' = nops + 1
    /\ UNCHANGED <<now, sweepSeen>>
    /\ IF Falsy(a, "content_hash")
       THEN /\ Return(p, Enter(p, "delete_memory", a), Result("ValidationError"), collection)
            /\ UNCHANGED <<collection, deletedIds, userDeleted>>
       ELSE LET gone == {r \in collection : r.metadata.content_hash = a.content_hash}
                mine == [Enter(p, "delete_memory", a) EXCEPT !.calls = 1]
            IN /\ collection' = collection \ gone
               /\ deletedIds' = deletedIds \cup Ids(gone)
               /\ userDeleted' = userDeleted \cup Hashes(gone)
               /\ Return(p, mine,
                         IF gone = {} THEN Result("Error") ELSE Result("Deleted"),
                         collection \ gone)

\* Lines 304-313: collection.delete(where={"content_hash": h}).
DeleteMemory(p, a) ==
    /\ pc[p] = "idle"
    /\ nops' = nops + 1
    /\ UNCHANGED <<now, sweepSeen>>
    /\ IF Falsy(a, "content_hash")
       THEN /\ Return(p, Enter(p, "delete_memory", a), Result("ValidationError"), collection)
            /\ UNCHANGED <<collection, deletedIds, userDeleted>>
       ELSE LET gone == {r \in collection : r.metadata.content_hash = a.content_hash}
                mine == [Enter(p, "delete_memory", a) EXCEPT !.calls = 1]
            IN /\ collection' = collection \ gone
               /\ deletedIds' = deletedIds \cup Ids(gone)
               /\ userDeleted' = userDeleted \cup Hashes(gone)
               /\ Return(p, mine, Result("Deleted"), collection \ gone)

(***************************************************************************)
(* delete_by_tag                                                           *)
(***************************************************************************)
DeleteTagArgs == {NoArgs, [tag |-> <<>>], [tag |-> TagX], [tag |-> TagXY]}

\* A filter that matches whole tags only.
TagsStrHasToken(r, tag) ==
    /\ "tags_str" \in DOMAIN r.metadata
    /\ tag \in Range(Split(r.metadata.tags_str, ","))

\* where={"tags_str": {"$contains": tag}}: the filter the handler hands to
\* the engine, a substring test on the stored tags_str.
TagsStrContains(r, tag) ==
    /\ "tags_str" \in DOMAIN r.metadata
    /\ Contains(r.metadata.tags_str, tag)

\* Lines 319-327, 333-336: collection.get(where=...) and the none-found text.
DeleteByTag(p, a) ==
    /\ pc[p] = "idle"
    /\ nops' = nops + 1
    /\ UNCHANGED <<collection, now, deletedIds, userDeleted, sweepSeen>>
    /\ IF Falsy(a, "tag")
       THEN Return(p, Enter(p, "delete_by_tag", a), Result("ValidationError"), collection)
       ELSE LET found == {r \in collection : TagsStrContains(r, a.tag)}
                mine  == [Enter(p, "delete_by_tag", a) EXCEPT !.calls = 1, !.ids = Ids(found)]
            IN IF found # {}
               THEN Goto(p, mine, "delete_by_tag_delete")
               ELSE Return(p, mine, Result("NoneWithTag"), collection)

\* Lines 328-332: collection.delete(ids=results["ids"]) and the count.
DeleteByTagDelete(p) ==
    /\ pc[p] = "delete_by_tag_delete"
    /\ UNCHANGED <<now, nops, sweepSeen>>
    /\ LET gone == {r \in collection : r.id \in loc[p].ids}
           mine == [loc[p] EXCEPT !.calls = @ + 1]
       IN /\ collection' = collection \ gone
          /\ deletedIds' = deletedIds \cup Ids(gone)
          /\ userDeleted' = userDeleted \cup Hashes(gone)
          /\ Return(p, mine, [Result("DeletedN") EXCEPT !.n = Cardinality(loc[p].ids)],
                    collection \ gone)

(***************************************************************************)
(* cleanup_duplicates                                                      *)
(***************************************************************************)
\* Line 353: the hash the sweep computes for a fetched record.
SweepHash(r) == GenerateHash(r.document, r.metadata)

\* A loop that marks a record when a later record of the fetch has its hash.
RECURSIVE ScanKeepLast(_, _, _)
ScanKeepLast(all, seen, duplicates) ==
    IF all = <<>> THEN duplicates
    ELSE IF \E i \in 2..Len(all) : SweepHash(all[i]) = SweepHash(Head(all))
         THEN ScanKeepLast(Tail(all), seen, Append(duplicates, Head(all).id))
         ELSE ScanKeepLast(Tail(all), seen, duplicates)

\* Lines 345-357: the loop over the fetched records; returns the ids of
\* the records whose hash was seen earlier in the fetch, in fetch order.
RECURSIVE Scan(_, _, _)
Scan(all, seen, duplicates) ==
    IF all = <<>> THEN duplicates
    ELSE IF SweepHash(Head(all)) \in seen
         THEN Scan(Tail(all), seen, Append(duplicates, Head(all).id))
         ELSE Scan(Tail(all), seen \cup {SweepHash(Head(all))}, duplicates)

\* Lines 344-358, 365-368: collection.get(), the scan, the no-duplicates text.
CleanupDuplicates(p, a) ==
    /\ pc[p] = "idle"
    /\ nops' = nops + 1
    /\ UNCHANGED <<collection, now, deletedIds, userDeleted>>
    /\ sweepSeen' = sweepSeen \cup Hashes(collection)
    /\ \E all \in Perms(collection) :
         LET duplicates == Scan(all, {}, <<>>)
             mine == [Enter(p, "cleanup_duplicates", a) EXCEPT
                        !.calls = 1, !.fetched = all, !.ids = Range(duplicates)]
         IN IF duplicates # <<>>
            THEN Goto(p, mine, "cleanup_delete")
            ELSE Return(p, mine, Result("NoDuplicates"), collection)

\* Lines 359-364: collection.delete(ids=duplicates) and the count.
CleanupDelete(p) ==
    /\ pc[p] = "cleanup_delete"
    /\ UNCHANGED <<now, nops, userDeleted, sweepSeen>>
    /\ LET gone == {r \in collection : r.id \in loc[p].ids}
           mine == [loc[p] EXCEPT !.calls = @ + 1]
       IN /\ collection' = collection \ gone
          /\ deletedIds' = deletedIds \cup Ids(gone)
          /\ Return(p, mine, [Result("Removed") EXCEPT !.n = Cardinality(loc[p].ids)],
                    collection \ gone)

(***************************************************************************)
(* The dispatcher's else branch.                                           *)
(***************************************************************************)
\* Lines 175-179: a name that is none of the six tools raises ValueError,
\* which the dispatcher's except clause turns into an error text.
UnknownTool(p, a) ==
    /\ pc[p] = "idle"
    /\ nops' = nops + 1
    /\ UNCHANGED <<collection, now, deletedIds, userDeleted, sweepSeen>>
    /\ Return(p, Enter(p, "unknown_tool", a), Result("Error"), collection)

(***************************************************************************)
(* Failing collaborators: a call to the storage engine or to the embedding *)
(* function raises.  A call that raises has done nothing to the            *)
(* collection; the handler's except clause returns an error text.          *)
(***************************************************************************)
\* A collection.add that raises after the engine has written the record.
StoreFailsAfterWrite(p) ==
    /\ pc[p] \in {"store_check", "store_encode", "store_add"}
    /\ UNCHANGED <<now, nops, deletedIds, userDeleted, sweepSeen>>
    /\ LET mine == [loc[p] EXCEPT !.calls = @ + 1]
           rec  == [id |-> mine.id, document |-> mine.content, metadata |-> mine.metadata]
           left == IF pc[p] = "store_add" THEN collection \cup {rec} ELSE collection
       IN /\ collection' = left
          /\ Return(p, mine, Result("Error"), left)

\* Lines 229-231: collection.get, model.encode or collection.add raises
\* inside handle_store_memory.
StoreFails(p) ==
    /\ pc[p] \in {"store_check", "store_encode", "store_add"}
    /\ UNCHANGED <<collection, now, nops, deletedIds, userDeleted, sweepSeen>>
    /\ Return(p, [loc[p] EXCEPT !.calls = @ + 1], Result("Error"), collection)

\* Lines 263-265: model.encode (the first call) or collection.query (the
\* second) raises inside handle_retrieve_memory.
RetrieveFails(p, a) ==
    /\ pc[p] = "idle"
    /\ ~Falsy(a, "query")
    /\ nops' = nops + 1
    /\ UNCHANGED <<collection, now, deletedIds, userDeleted, sweepSeen>>
    /\ \E failing \in {1, 2} :
         Return(p, [Enter(p, "retrieve_memory", a) EXCEPT !.calls = failing],
                Result("Error"), collection)

\* Lines 299-301: collection.get raises inside handle_search_by_tag.
SearchFails(p, a) ==
    /\ pc[p] = "idle"
    /\ ~Falsy(a, "tags")
    /\ nops' = nops + 1
    /\ UNCHANGED <<collection, now, deletedIds, userDeleted, sweepSeen>>
    /\ Return(p, [Enter(p, "search_by_tag", a) EXCEPT !.calls = 1],
              Result("Error"), collection)

\* Lines 314-316: collection.delete raises inside handle_delete_memory.
DeleteMemoryFails(p, a) ==
    /\ pc[p] = "idle"
    /\ ~Falsy(a, "content_hash")
    /\ nops' = nops + 1
    /\ UNCHANGED <<collection, now, deletedIds, userDeleted, sweepSeen>>
    /\ Return(p, [Enter(p, "delete_memory", a) EXCEPT !.calls = 1],
              Result("Error"), collection)

\* Lines 337-339: collection.get raises inside handle_delete_by_tag.
DeleteByTagGetFails(p, a) ==
    /\ pc[p] = "idle"
    /\ ~Falsy(a, "tag")
    /\ nops' = nops + 1
    /\ UNCHANGED <<collection, now, deletedIds, userDeleted, sweepSeen>>
    /\ Return(p, [Enter(p, "delete_by_tag", a) EXCEPT !.calls = 1],
              Result("Error"), collection)

\* Lines 337-339: collection.delete raises inside handle_delete_by_tag.
DeleteByTagDeleteFails(p) ==
    /\ pc[p] = "delete_by_tag_delete"
    /\ UNCHANGED <<collection, now, nops, deletedIds, userDeleted, sweepSeen>>
    /\ Return(p, [loc[p] EXCEPT !.calls = @ + 1], Result("Error"), collection)

\* Lines 369-371: collection.get raises inside handle_cleanup_duplicates.
CleanupGetFails(p, a) ==
    /\ pc[p] = "idle"
    /\ nops' = nops + 1
    /\ UNCHANGED <<collection, now, deletedIds, userDeleted, sweepSeen>>
    /\ Return(p, [Enter(p, "cleanup_duplicates", a) EXCEPT !.calls = 1],
              Result("Error"), collection)

\* Lines 369-371: collection.delete raises inside handle_cleanup_duplicates.
CleanupDeleteFails(p) ==
    /\ pc[p] = "cleanup_delete"
    /\ UNCHANGED <<collection, now, nops, deletedIds, userDeleted, sweepSeen>>
    /\ Return(p, [loc[p] EXCEPT !.calls = @ + 1], Result("Error"), collection)

(***************************************************************************)
(* Specifications.                                                         *)
(***************************************************************************)
\* One connection: the handlers run one at a time, each to its end.  A
\* sweep that runs alone after such calls finds nothing to delete, so its
\* delete step is not among the steps (NoSweepDelete states that it is
\* never reached).
Next ==
    \/ \E a \in StoreArgs : nops < MaxOps /\ StoreMemory("p1", a)
    \/ StoreCheck("p1")
    \/ StoreEncode("p1")
    \/ StoreAdd("p1")
    \/ \E a \in RetrieveArgs : nops < MaxOps /\ RetrieveMemory("p1", a)
    \/ \E a \in SearchArgs : nops < MaxOps /\ SearchByTag("p1", a)
    \/ \E a \in DeleteArgs : nops < MaxOps /\ DeleteMemory("p1", a)
    \/ \E a \in DeleteTagArgs : nops < MaxOps /\ DeleteByTag("p1", a)
    \/ DeleteByTagDelete("p1")
    \/ nops < MaxOps /\ CleanupDuplicates("p1", NoArgs)
    \/ nops < MaxOps /\ UnknownTool("p1", NoArgs)

Spec == Init /\ [][Next]_vars

NoSweepDelete == pc["p1"] # "cleanup_delete"

\* Two connections to the same collection: the steps of their handlers
\* interleave.
ConcRetrieveArgs == {[query |-> TxtA]}
ConcSearchArgs == {[tags |-> <<TagX>>]}
ConcDeleteTagArgs == {[tag |-> TagX]}
ConcDeleteArgs == {[content_hash |-> h] : h \in Hashes(collection) \cup {UnknownHash}}

NextConc ==
    \E p \in Procs :
        \/ \E a \in ConcStoreArgs : nops < MaxConcOps /\ StoreMemory(p, a)
        \/ StoreCheck(p)
        \/ StoreEncode(p)
        \/ StoreAdd(p)
        \/ \E a \in ConcRetrieveArgs : nops < MaxConcOps /\ RetrieveMemory(p, a)
        \/ \E a \in ConcSearchArgs : nops < MaxConcOps /\ SearchByTag(p, a)
        \/ \E a \in ConcDeleteArgs : nops < MaxConcOps /\ DeleteMemory(p, a)
        \/ \E a \in ConcDeleteTagArgs : nops < MaxConcOps /\ DeleteByTag(p, a)
        \/ DeleteByTagDelete(p)
        \/ nops < MaxConcOps /\ CleanupDuplicates(p, NoArgs)
        \/ CleanupDelete(p)
        \/ nops < MaxConcOps /\ UnknownTool(p, NoArgs)

SpecConc == Init /\ [][NextConc]_vars

\* One connection whose collaborators can fail.  The server opens what
\* earlier runs left under CHROMA_PATH (get_or_create_collection): nothing,
\* or the two records that two racing stores of one request left behind
\* (C3_Witness), which gives the sweep something to delete.
RacedArgs == [content |-> TxtA, metadata |-> [tags |-> <<TagX, TagY>>]]

PersistedPair ==
    LET processed == ProcessMetadata(RacedArgs, Str(0))
        metadata  == WithHash(processed, GenerateHash(RacedArgs.content, processed))
    IN {[id |-> Str(ms), document |-> RacedArgs.content, metadata |-> metadata] :
           ms \in {0, 1}}

InitFail ==
    /\ \E persisted \in {{}, PersistedPair} :
         /\ collection = persisted
         /\ now = IF persisted = {} THEN 0 ELSE MaxClock
    /\ pc = [p \in Procs |-> "idle"]
    /\ loc = [p \in Procs |-> IdleLoc]
    /\ hist = <<>>
    /\ nops = 0
    /\ deletedIds = {}
    /\ userDeleted = {}
    /\ sweepSeen = {}
    /\ hashed = NoHashCall

NextFail ==
    \/ \E a \in ConcStoreArgs : nops < MaxOps /\ StoreMemory("p1", a)
    \/ StoreCheck("p1")
    \/ StoreEncode("p1")
    \/ StoreAdd("p1")
    \/ StoreFails("p1")
    \/ \E a \in ConcRetrieveArgs : nops < MaxOps /\ RetrieveMemory("p1", a)
    \/ \E a \in ConcRetrieveArgs : nops < MaxOps /\ RetrieveFails("p1", a)
    \/ \E a \in ConcSearchArgs : nops < MaxOps /\ SearchByTag("p1", a)
    \/ \E a \in ConcSearchArgs : nops < MaxOps /\ SearchFails("p1", a)
    \/ \E a \in ConcDeleteArgs : nops < MaxOps /\ DeleteMemory("p1", a)
    \/ \E a \in ConcDeleteArgs : nops < MaxOps /\ DeleteMemoryFails("p1", a)
    \/ \E a \in ConcDeleteTagArgs : nops < MaxOps /\ DeleteByTag("p1", a)
    \/ \E a \in ConcDeleteTagArgs : nops < MaxOps /\ DeleteByTagGetFails("p1", a)
    \/ DeleteByTagDelete("p1")
    \/ DeleteByTagDeleteFails("p1")
    \/ nops < MaxOps /\ CleanupDuplicates("p1", NoArgs)
    \/ nops < MaxOps /\ CleanupGetFails("p1", NoArgs)
    \/ CleanupDelete("p1")
    \/ CleanupDeleteFails("p1")
    \/ nops < MaxOps /\ UnknownTool("p1", NoArgs)

SpecFail == InitFail /\ [][NextFail]_vars

\* _generate_hash called on its own: any content with any dict over the
\* keys the service hashes, the pairs inserted in any order.
HashKeys == {"content_hash", "tags_str", "timestamp", "type"}
HashValues == {<<"0">>, <<"x", ",", "y">>}

InitHash ==
    /\ \E content \in Contents, keys \in SUBSET HashKeys :
         \E metadata \in [keys -> HashValues], order \in Perms(keys) :
            hashed = [content |-> content, metadata |-> metadata, order |-> order,
                      digest |-> <<>>, done |-> FALSE]
    /\ collection = {}
    /\ now = 0
    /\ pc = [p \in Procs |-> "idle"]
    /\ loc = [p \in Procs |-> IdleLoc]
    /\ hist = <<>>
    /\ nops = 0
    /\ deletedIds = {}
    /\ userDeleted = {}
    /\ sweepSeen = {}

GenerateHashCall ==
    /\ ~hashed.done
    /\ hashed' = [hashed EXCEPT
                     !.digest = GenerateHashOf(hashed.content,
                                               ItemsOf(hashed.metadata, hashed.order)),
                     !.done = TRUE]
    /\ UNCHANGED <<collection, now, pc, loc, hist, nops, deletedIds, userDeleted,
                   sweepSeen>>

NextHash == GenerateHashCall

SpecHash == InitHash /\ [][NextHash]_vars


(***************************************************************************)
(* Properties.                                                             *)
(***************************************************************************)
\* The call that returned last, and the one that returned before it.
Last == hist[Len(hist)]
Prev == hist[Len(hist) - 1]

Returned(op) == hist # <<>> /\ Last.call.op = op
ReturnedTwice(op) ==
    Len(hist) = 2 /\ Prev.call.op = op /\ Last.call.op = op /\ Prev.call.args = Last.call.args

\* The argument k is missing from the arguments a, or empty.
EmptyOrAbsent(a, k) == k \notin DOMAIN a \/ a[k] = <<>>

UniqueHashes(recs) ==
    \A r1, r2 \in recs : r1 # r2 => r1.metadata.content_hash # r2.metadata.content_hash

\* C1 (as claimed): two store_memory calls in a row with the same
\* non-empty content, tags and type give one Stored and one Duplicate
\* outcome, and the collection grows by exactly one record, whatever the
\* clock shows at the two calls.
C1_DedupIdempotence ==
    (ReturnedTwice("store_memory") /\ ~EmptyOrAbsent(Last.call.args, "content"))
    => /\ {Prev.res.kind, Last.res.kind} = {"Stored", "Duplicate"}
       /\ Cardinality(Last.after) = Cardinality(Prev.call.before) + 1

\* C2: with the calls running one at a time, no two live records carry the
\* same content_hash; a store_memory whose fingerprint is the content_hash
\* of a live record returns Duplicate and writes nothing; a sweep finds
\* nothing to delete.
C2_FingerprintUnique ==
    /\ UniqueHashes(collection)
    /\ NoSweepDelete
    /\ (Returned("store_memory") /\ Last.call.hash \in Hashes(Last.call.before))
       => /\ Last.res.kind = "Duplicate"
          /\ Last.after = Last.call.before

\* A store_memory has just been turned away as a Duplicate of a live record.
C2_Witness ==
    /\ Returned("store_memory")
    /\ Last.res.kind = "Duplicate"
    /\ Last.call.hash \in Hashes(collection)

\* C3: the write of a store_memory that passed its duplicate check commits
\* whatever the collection holds by then, also a record with the same
\* content_hash written by another connection since the check.
C3_WriteAfterCheckCommits ==
    [][\A p \in Procs :
          (pc[p] = "store_add" /\ pc'[p] = "idle" /\ loc[p].id \notin Ids(collection))
          => /\ collection' = collection \cup
                    {[id |-> loc[p].id, document |-> loc[p].content,
                      metadata |-> loc[p].metadata]}
             /\ Last'.res.kind = "Stored"]_vars

\* C3: both racing stores have returned Stored and their two records,
\* sharing one content_hash, are live.
C3_Witness ==
    /\ Len(hist) = 2
    /\ Prev.call.op = "store_memory" /\ Last.call.op = "store_memory"
    /\ Prev.call.args = Last.call.args
    /\ Prev.res.kind = "Stored" /\ Last.res.kind = "Stored"
    /\ Prev.call.hash = Last.call.hash
    /\ \E r1, r2 \in collection :
          r1 # r2 /\ r1.metadata.content_hash = r2.metadata.content_hash


\* C4 (as claimed): a cleanup_duplicates call that runs alone leaves
\* exactly one live record for each content_hash it found, reports the
\* number of records minus the number of distinct content_hash values as
\* removed, and a cleanup_duplicates call right after it removes nothing
\* and reports no duplicates.
C4_CleanupConvergence ==
    (Returned("cleanup_duplicates") /\ Last.call.alone)
    => /\ UniqueHashes(Last.after)
       /\ Hashes(Last.after) = Hashes(Last.call.before)
       /\ Last.res.n = Cardinality(Last.call.before) - Cardinality(Hashes(Last.call.before))
       /\ (/\ Len(hist) = 2
           /\ Prev.call.op = "cleanup_duplicates"
           /\ Prev.call.alone
           /\ Prev.after = Last.call.before)
          => (Last.res.kind = "NoDuplicates" /\ Last.after = Last.call.before)

\* C5 (as claimed): once every sweep has finished, each content_hash that
\* a sweep fetched is still carried by a live record, unless a
\* delete_memory or delete_by_tag call removed a record carrying it.
C5_SweepsKeepOnePerFingerprint ==
    (\A p \in Procs : pc[p] = "idle")
    => \A h \in sweepSeen \ userDeleted : h \in Hashes(collection)

\* C6 (as claimed): the id of a Stored outcome is the id of no live record
\* and of no record deleted earlier.
C6_IdUnique ==
    (hist # <<>> /\ Last.call.op = "store_memory" /\ Last.res.kind = "Stored")
    => /\ Last.res.id \notin Ids(Last.call.before)
       /\ Last.res.id \notin deletedIds

\* The stored tag set of r shares a tag with the requested list.
SharesTag(r, tags) ==
    /\ "tags_str" \in DOMAIN r.metadata
    /\ Range(Split(r.metadata.tags_str, ",")) \cap Range(tags) # {}

StoredWithoutTags(r) ==
    "tags_str" \notin DOMAIN r.metadata \/ r.metadata.tags_str = <<>>

\* C7 (as claimed): search_by_tag with a non-empty tag list returns exactly
\* the live records whose stored tag set shares a tag with the list, each
\* once, in the order of the fetch; a record stored without tags is never
\* returned.
C7_TagSearchAnyOf ==
    (Returned("search_by_tag") /\ ~EmptyOrAbsent(Last.call.args, "tags"))
    => /\ Range(Last.call.fetched) = Last.call.before
       /\ Len(Last.call.fetched) = Cardinality(Last.call.before)
       /\ Last.res.docs =
             SelectSeq(Last.call.fetched, LAMBDA r : SharesTag(r, Last.call.args.tags))
       /\ \A i \in DOMAIN Last.res.docs : ~StoredWithoutTags(Last.res.docs[i])

Required(op) ==
    CASE op = "store_memory"    -> "content"
      [] op = "retrieve_memory" -> "query"
      [] op = "search_by_tag"   -> "tags"
      [] op = "delete_memory"   -> "content_hash"
      [] op = "delete_by_tag"   -> "tag"

Validated == {"store_memory", "retrieve_memory", "search_by_tag", "delete_memory",
              "delete_by_tag"}

\* C10: a store_memory, retrieve_memory, search_by_tag, delete_memory or
\* delete_by_tag call whose required argument is empty or absent returns
\* the validation error, makes no call to the storage engine or the
\* embedding function and leaves the collection unchanged; no handler is
\* left running.
C10_ValidationRejects ==
    /\ (hist # <<>> /\ Last.call.op \in Validated
          /\ EmptyOrAbsent(Last.call.args, Required(Last.call.op)))
       => /\ Last.res.kind = "ValidationError"
          /\ Last.call.calls = 0
          /\ Last.after = Last.call.before
    /\ \A p \in Procs :
          (pc[p] # "idle" /\ loc[p].op \in Validated)
          => ~EmptyOrAbsent(loc[p].args, Required(loc[p].op))

\* An empty content and then an empty query were rejected while a record
\* was live.
C10_Witness ==
    /\ Len(hist) = 2
    /\ Prev.call.op = "store_memory" /\ Prev.call.args = [content |-> <<>>]
    /\ Prev.res.kind = "ValidationError"
    /\ Last.call.op = "retrieve_memory" /\ Last.call.args = [query |-> <<>>]
    /\ Last.res.kind = "ValidationError"
    /\ collection # {}

\* C11: a step that changes the collection is the last step of its handler
\* (the reads come first, one write or delete call ends the command); a
\* command in which a storage or embedding call raised returns the error
\* text with no handler left running, and the collection is what it was
\* when the command started; an unknown command does the same.
C11_FailureAtomicity ==
    [][/\ collection' # collection
          => \E p \in Procs : pc[p] \in {"store_add", "delete_by_tag_delete",
                                          "cleanup_delete", "idle"}
                              /\ pc'[p] = "idle" /\ hist' # hist
       /\ (hist' # hist /\ Last'.res.kind = "Error")
          => /\ Last'.after = Last'.call.before
             /\ collection' = collection
             /\ collection' = Last'.call.before
             /\ \A p \in Procs : pc'[p] = "idle"]_vars

\* The delete call of a sweep that found a duplicate raised: the sweep
\* returned the error text and both copies are still live.
C11_Witness ==
    /\ Returned("cleanup_duplicates")
    /\ Last.res.kind = "Error"
    /\ Last.call.calls = 2
    /\ Last.call.ids # {}
    /\ collection = PersistedPair

\* C12: the digest _generate_hash returns for a content and a dict is the
\* digest it returns for that content and the same pairs inserted in any
\* other order, and it is the digest of the content followed by the pairs
\* in key order.
C12_FingerprintDeterminism ==
    hashed.done
    => /\ \A order \in Perms(DOMAIN hashed.metadata) :
             GenerateHashOf(hashed.content, ItemsOf(hashed.metadata, order))
                = hashed.digest
       /\ hashed.digest = GenerateHash(hashed.content, hashed.metadata)

\* A dict of three or more pairs was hashed whose insertion order is not
\* the key order.
C12_Witness ==
    /\ hashed.done
    /\ Len(hashed.order) >= 3
    /\ \E i \in 1..(Len(hashed.order) - 1) :
          TextLess(KeyText(hashed.order[i + 1]), KeyText(hashed.order[i]))

\* The record the last call wrote, when that call was a store_memory that
\* wrote one.
Written == Last.after \ Last.call.before

StoredWithTags ==
    /\ Returned("store_memory")
    /\ Last.res.kind = "Stored"
    /\ Written # {}
    /\ ~EmptyOrAbsent(Last.call.args, "metadata")
    /\ "tags" \in DOMAIN Last.call.args.metadata

\* C13 (as claimed): the record a store_memory wrote for a request with a
\* tag list, the empty list included, has a tags_str whose split on ","
\* is exactly the set of tags of the request.
C13_TagRoundTrip ==
    StoredWithTags
    => \A r \in Written :
          /\ "tags_str" \in DOMAIN r.metadata
          /\ Range(Split(r.metadata.tags_str, ","))
                = Range(Last.call.args.metadata.tags)

Removers == {"delete_memory", "delete_by_tag", "cleanup_duplicates"}

\* C14: a step changes the collection only as the step of a store_memory
\* that adds one record under an id no live record has, or as the step of
\* a delete_memory, delete_by_tag or cleanup_duplicates that removes whole
\* records; a record that stays live stays as it is; a retrieve_memory, a
\* search_by_tag, a store_memory that returns Duplicate and a command with
\* an unknown name, which returns an error, leave the collection as it was.
C14_RecordLifecycle ==
    [][/\ collection' # collection
          => /\ hist' # hist
             /\ \/ /\ Last'.call.op = "store_memory"
                   /\ Last'.res.kind = "Stored"
                   /\ \E r \in collection' \ collection :
                         /\ collection' = collection \cup {r}
                         /\ r.id \notin Ids(collection)
                \/ /\ Last'.call.op \in Removers
                   /\ collection' \subseteq collection
       /\ \A r1 \in collection, r2 \in collection' : r1.id = r2.id => r1 = r2
       /\ (/\ hist' # hist
           /\ \/ Last'.call.op \in {"retrieve_memory", "search_by_tag", "unknown_tool"}
              \/ Last'.res.kind = "Duplicate")
          => /\ collection' = collection
             /\ Last'.call.alone => Last'.after = Last'.call.before
       /\ (hist' # hist /\ Last'.call.op = "unknown_tool")
          => Last'.res.kind = "Error"]_vars

\* A store_memory whose id was the id of a live record returned Stored and
\* the live record is as it was; then a command with an unknown name was
\* turned away.
C14_Witness ==
    /\ Len(hist) = 2
    /\ Prev.call.op = "store_memory" /\ Prev.res.kind = "Stored"
    /\ Prev.res.id \in Ids(Prev.call.before)
    /\ Prev.after = Prev.call.before
    /\ Last.call.op = "unknown_tool" /\ Last.res.kind = "Error"
    /\ collection = Prev.call.before

\* The sweep of the last call ran to its end with no other call in between.
SweptAlone ==
    /\ Returned("cleanup_duplicates")
    /\ Last.call.alone
    /\ Last.res.kind \in {"Removed", "NoDuplicates"}

\* C15: after a cleanup_duplicates sweep that ran alone the live records
\* are exactly the fetched records that no earlier record of the fetch
\* shares its fingerprint with (the fingerprint the sweep computes): the
\* first record of each fingerprint survives, every later one is deleted
\* and is counted, and a record whose fingerprint occurs once stays.
C15_CleanupKeepsFirst ==
    SweptAlone
    => LET all == Last.call.fetched
           FirstOfItsHash(i) == \A j \in 1..(i - 1) : SweepHash(all[j]) # SweepHash(all[i])
       IN /\ Range(all) = Last.call.before
          /\ Last.after = {all[i] : i \in {k \in DOMAIN all : FirstOfItsHash(k)}}
          /\ Last.res.n = Cardinality(Last.call.before) - Cardinality(Last.after)

\* A sweep that ran alone fetched two copies, deleted the one it fetched
\* second and kept the one it fetched first.
C15_Witness ==
    /\ SweptAlone
    /\ Last.res.kind = "Removed"
    /\ Len(Last.call.fetched) = 2
    /\ Last.after = {Last.call.fetched[1]}

\* The keys of the raw metadata of the last call; none when the caller
\* passed no metadata or an empty one.
GivenKeys ==
    IF EmptyOrAbsent(Last.call.args, "metadata") THEN {}
    ELSE DOMAIN Last.call.args.metadata

WithoutHash(metadata) == [k \in DOMAIN metadata \ {"content_hash"} |-> metadata[k]]

\* The metadata of r holds the keys the service writes and no other, and
\* its content_hash is the fingerprint of the content and the other fields.
ShapedAsWritten(r) ==
    /\ {"timestamp", "content_hash"} \subseteq DOMAIN r.metadata
    /\ DOMAIN r.metadata \subseteq {"tags_str", "timestamp", "content_hash", "type"}
    /\ "type" \in DOMAIN r.metadata <=> "type" \in GivenKeys
    /\ r.metadata.content_hash = GenerateHash(r.document, WithoutHash(r.metadata))

\* C16 (as claimed): the record a store_memory wrote holds tags_str (the
\* empty text when the caller gave no tags), timestamp and content_hash,
\* holds type only when the caller gave it, holds no other key, and its
\* content_hash is the fingerprint of its content and its other fields.
C16_MetadataShape ==
    (Returned("store_memory") /\ Last.res.kind = "Stored")
    => \A r \in Written :
          /\ ShapedAsWritten(r)
          /\ "tags_str" \in DOMAIN r.metadata
          /\ "tags" \notin GivenKeys => r.metadata.tags_str = <<>>

SameAsRequest(r) ==
    /\ r.document = Last.call.content
    /\ DOMAIN r.metadata = DOMAIN Last.call.metadata
    /\ \A k \in DOMAIN r.metadata : r.metadata[k] = Last.call.metadata[k]

\* C18 (as claimed): the text _generate_hash digests is the same for two
\* inputs only when their contents and their metadata are the same, so a
\* store_memory returns Duplicate only when a live record has the content
\* and the metadata of the request.
C18_FingerprintSeparates ==
    (Returned("store_memory") /\ Last.res.kind = "Duplicate")
    => /\ \E r \in Last.call.before : SameAsRequest(r)
       /\ \A r \in Last.call.before :
             HashContent(r.document, WithoutHash(r.metadata))
                = HashContent(Last.call.content, WithoutHash(Last.call.metadata))
             => SameAsRequest(r)

====
